---- MODULE Spec2Model ----
(***************************************************************************)
(* The packages store of the desktop app (libs/stores/pkgs.ts): the list  *)
(* of package records, init, installPkg with its fake progress timer,     *)
(* fetchPackageBottles, search and updatePackage.                          *)
(*                                                                         *)
(* Every await of the source is a point where other handlers may run, so   *)
(* each async function is cut into one action per synchronous segment.     *)
(* Numbers with a fractional part are exact rationals [n, d]; a number    *)
(* that went through toFixed(2) is an integer count of hundredths          *)
(* (1.99 is 199, 100 is 10000).                                            *)
(***************************************************************************)
EXTENDS Integers, Sequences, FiniteSets, TLC

\* Bounds of the model.
MaxInits == 2
MaxInstalls == 2
MaxTicks == 2
MaxSubs == 2
MaxSyncs == 2

\* PackageStates (imported from ../types, used by name in pkgs.ts).
AVAILABLE == "AVAILABLE"
INSTALLED == "INSTALLED"
INSTALLING == "INSTALLING"
NEEDS_UPDATE == "NEEDS_UPDATE"
UPDATING == "UPDATING"
PackageStates == {AVAILABLE, INSTALLED, INSTALLING, NEEDS_UPDATE, UPDATING}

VARIABLES
    initialized,     \* let initialized
    packages,        \* the packages store: sequence of GUIPackage records
    packagesIndex,   \* let packagesIndex: <<>> while undefined, else <<index>>
    requireTeaCli,   \* the requireTeaCli store
    syncProgress,    \* the syncProgress store, in hundredths
    inits,           \* the calls of init: position and locals of each (pkgs;
                     \* installedPkgs as <<>> until fetched, then <<list>>;
                     \* guiPkgs as <<>> while it is the store's array, else
                     \* <<array>>)
    calls,           \* the calls of installPkg: position and locals of each
    timers,          \* the intervals that are set: timer id -> the closure of
                     \* its callback (withFakeLoader's locals)
    native,          \* how often each @native fetch was invoked
    analytics,       \* how often trackInstall / trackInstallFailed ran, per package
    searchOut,       \* arguments and result of the latest search call
    upd,             \* arguments of a direct updatePackage call
    subscribers,     \* the slugs of the subscribeToPackage subscriptions, in order
    syncs            \* the calls of syncPackageData that went on to getPackage:
                     \* position and locals of each

vars == <<initialized, packages, packagesIndex, requireTeaCli, syncProgress,
          inits, calls, timers, native, analytics, searchOut, upd, subscribers,
          syncs>>

----------------------------------------------------------------------------
\* Inputs: what the backend may answer.

TeaName == "tea.xyz"
OtherName == "b"
PkgNames == {TeaName, OtherName}

\* The slug the backend gives a package.
Slug(name) == IF name = TeaName THEN "tea_xyz" ELSE name

DistPkg(name) == [full_name |-> name, slug |-> Slug(name), version |-> "2"]

\* getDistPackages(): catalogs of up to two packages, full_name being the key.
DistCatalogs ==
    { <<>>,
      <<DistPkg(TeaName)>>,
      <<DistPkg(OtherName), DistPkg(TeaName)>> }

InstalledPkg(name, versions) == [full_name |-> name, installed_versions |-> versions]

\* getInstalledPackages(): one record per installed package, its versions in
\* any order.
InstalledLists ==
    { <<>>,
      <<InstalledPkg(TeaName, <<"2", "1">>)>>,
      <<InstalledPkg(OtherName, <<"1">>)>>,
      <<InstalledPkg(OtherName, <<"2", "1">>), InstalledPkg(TeaName, <<"1", "2">>)>> }

\* getPackageBottles(): the bottles of a small package (192 KiB). A package
\* whose bottles were not fetched has no bottles field.
assumedDlSpeedMb == 1024 * 1024 * 3
BottleLists == { <<[bytes |-> 196608]>> }

\* The package fetchPackageBottles is called for: the one that every catalog
\* with a package in it has. (The function does the same for any name.)
BottleNames == {TeaName}

----------------------------------------------------------------------------
\* Helpers for JavaScript values.

\* { ...a, ...b }
Spread(a, b) ==
    [f \in (DOMAIN a) \cup (DOMAIN b) |-> IF f \in DOMAIN b THEN b[f] ELSE a[f]]

\* Array.prototype.findIndex on full_name, 1-based; 0 stands for -1.
findIndex(pkgs, full_name) ==
    IF \E i \in 1..Len(pkgs) : pkgs[i].full_name = full_name
    THEN CHOOSE i \in 1..Len(pkgs) :
            /\ pkgs[i].full_name = full_name
            /\ \A j \in 1..(i - 1) : pkgs[j].full_name # full_name
    ELSE 0

\* Array.prototype.find on full_name: <<>> for undefined, else <<record>>.
find(pkgs, full_name) ==
    LET i == findIndex(pkgs, full_name)
    IN  IF i = 0 THEN <<>> ELSE <<pkgs[i]>>

\* installed_versions[0]: <<>> for undefined, else <<version>>.
First(versions) == IF Len(versions) = 0 THEN <<>> ELSE <<versions[1]>>

\* A mutation of updatePackage: a record that is not found is added.
updatePackageUpsert(pkgs, full_name, props) ==
    LET i == findIndex(pkgs, full_name)
    IN  IF i >= 1
        THEN [pkgs EXCEPT ![i] = Spread(pkgs[i], props)]
        ELSE Append(pkgs, Spread([full_name |-> full_name], props))

\* updatePackage, as the new value of the packages store.
updatePackage(pkgs, full_name, props) ==
    LET i == findIndex(pkgs, full_name)
    IN  IF i >= 1
        THEN [pkgs EXCEPT ![i] = Spread(pkgs[i], props)]
        ELSE pkgs

----------------------------------------------------------------------------
\* Exact arithmetic for withFakeLoader.

Abs(x) == IF x < 0 THEN -x ELSE x

RECURSIVE GCD(_, _)
GCD(a, b) == IF b = 0 THEN a ELSE GCD(b, a % b)

\* The rational n/d in lowest terms, d > 0.
Rat(n, d) ==
    LET g == GCD(Abs(n), Abs(d))
        s == IF d < 0 THEN -1 ELSE 1
    IN  [n |-> s * (n \div g), d |-> s * (d \div g)]

\* +x.toFixed(2) in hundredths, as the set of values it may give. The code
\* rounds the double nearest to x: where x is nearer to one hundredth, that
\* one; where x lies halfway between two, the double lies on either side of
\* the half (or on it, and the one away from zero is taken), so both are given.
ToFixed2(x) ==
    LET a == Abs(x.n)
        q == a \div x.d
        r == a % x.d
        lo == q * 100 + ((100 * r) \div x.d)
        rest == (100 * r) % x.d
        hs == IF 2 * rest < x.d THEN {lo}
              ELSE IF 2 * rest > x.d THEN {lo + 1}
              ELSE {lo, lo + 1}
    IN  { IF x.n < 0 THEN -h ELSE h : h \in hs }

\* const size = pkg?.bottles?.length ? pkg.bottles[0].bytes : assumedDlSpeedMb * 10
LoaderSize(pkg) ==
    IF "bottles" \in DOMAIN pkg /\ Len(pkg.bottles) > 0
    THEN pkg.bottles[1].bytes
    ELSE assumedDlSpeedMb * 10

\* eta = size / assumedDlSpeedMb; increment = 1 / eta / 10
LoaderIncrement(pkg) == Rat(assumedDlSpeedMb, 10 * LoaderSize(pkg))

\* One run of the interval callback on fakeLoadingProgress p:
\* progressLeft = 100 - p; addProgress = progressLeft * increment; p + addProgress
LoaderStep(p, inc) ==
    Rat(p.n * inc.d + (100 * p.d - p.n) * inc.n, p.d * inc.d)

----------------------------------------------------------------------------
\* subscribeToPackage's subscriber and the start of syncPackageData.

\* pkgs.find((p) => p.slug === slug): <<>> for undefined, else <<record>>.
findSlug(pkgs, slug) ==
    IF \E i \in 1..Len(pkgs) : pkgs[i].slug = slug
    THEN LET i == CHOOSE i \in 1..Len(pkgs) :
                     /\ pkgs[i].slug = slug
                     /\ \A j \in 1..(i - 1) : pkgs[j].slug # slug
         IN  <<pkgs[i]>>
    ELSE <<>>

\* if (!guiPkg || guiPkg.synced) return; negated: the call goes on to getPackage.
SyncGuard(guiPkg) ==
    /\ guiPkg # <<>>
    /\ ~("synced" \in DOMAIN guiPkg[1] /\ guiPkg[1].synced)

\* syncPackageData(guiPkg) up to await getPackage(..), as the new table of
\* syncPackageData calls; guiPkg is <<>> for undefined, else <<record>>. The
\* call keeps what it reads of guiPkg later.
syncPackageData(table, guiPkg) ==
    IF SyncGuard(guiPkg)
    THEN Append(table,
           [full_name |-> guiPkg[1].full_name,
            homepage |-> IF "homepage" \in DOMAIN guiPkg[1]
                         THEN <<guiPkg[1].homepage>>
                         ELSE <<>>,
            pkg |-> <<>>,
            pc |-> "getPackage"])
    ELSE table

\* The subscriber of one subscription runs on the store value pkgs.
Subscriber(table, pkgs, slug) ==
    LET foundPackage == findSlug(pkgs, slug)
    IN  IF foundPackage # <<>>
        THEN syncPackageData(table, foundPackage)
        ELSE table

\* The store notifies its subscribers of the value pkgs, from subscriber k on.
RECURSIVE Notify(_, _, _)
Notify(table, pkgs, k) ==
    IF k > Len(subscribers)
    THEN table
    ELSE Notify(Subscriber(table, pkgs, subscribers[k]), pkgs, k + 1)

\* The store takes the values of the sequence one after the other (one per
\* packages.set or packages.update) and notifies of each, from value v on.
RECURSIVE NotifyAll(_, _, _)
NotifyAll(table, values, v) ==
    IF v > Len(values)
    THEN table
    ELSE NotifyAll(Notify(table, values[v], 1), values, v + 1)

\* The subscribers have run on each of the values; table is the table of
\* syncPackageData calls before. A store without subscribers runs nothing.
Deliver(table, values) ==
    LET after == IF subscribers = <<>> THEN table ELSE NotifyAll(table, values, 1)
    IN  /\ Len(after) <= MaxSyncs
        /\ syncs' = after
        /\ UNCHANGED subscribers

----------------------------------------------------------------------------
\* State after initPackagesStore().

NoUpdate == [pkgs |-> <<>>, full_name |-> "", props |-> <<>>, done |-> FALSE]
NoSearch == [term |-> "", limit |-> <<>>, res |-> <<>>]

Init ==
    /\ initialized = FALSE
    /\ packages = <<>>
    /\ packagesIndex = <<>>
    /\ requireTeaCli = FALSE
    /\ syncProgress = 0
    /\ inits = <<>>
    /\ calls = <<>>
    /\ timers = <<>>
    /\ native = [getDistPackages |-> 0, getInstalledPackages |-> 0]
    /\ analytics = [trackInstall |-> [n \in PkgNames |-> 0],
                    trackInstallFailed |-> [n \in PkgNames |-> 0]]
    /\ searchOut = NoSearch
    /\ upd = NoUpdate
    /\ subscribers = <<>>
    /\ syncs = <<>>

----------------------------------------------------------------------------
\* init

\* A mutation of the guard of init: the flag is not consulted.
InitGuardAlways == TRUE

\* if (!initialized)
InitGuard == ~initialized

\* pkgs.map((p) => ({ ...p, state: PackageStates.AVAILABLE }))
GuiPkgs(pkgs) == [k \in 1..Len(pkgs) |-> Spread(pkgs[k], [state |-> AVAILABLE])]

\* new Fuse(guiPkgs, { keys }): the documents the index was built over, by
\* full_name. The index keeps the array itself, which is the store's array.
FuseIndex(guiPkgs) == [k \in 1..Len(guiPkgs) |-> guiPkgs[k].full_name]

\* A mutation of the annotation: any installed version counts as up to date.
AnnotatedStateAnyVersion(pkg, iPkg) ==
    IF \E k \in 1..Len(iPkg.installed_versions) : iPkg.installed_versions[k] = pkg.version
    THEN INSTALLED
    ELSE NEEDS_UPDATE

\* isUpdated = pkg.version === iPkg.installed_versions[0];
\* state: isUpdated ? INSTALLED : NEEDS_UPDATE
AnnotatedState(pkg, iPkg) ==
    IF <<pkg.version>> = First(iPkg.installed_versions)
    THEN INSTALLED
    ELSE NEEDS_UPDATE

\* The loop over installedPkgs.entries(), from entry k on, as the new value of
\* the store pkgs. guiPkgs is init's own array, in which the loop looks the
\* installed package up (line 109); updatePackage writes the store, and never a
\* full_name or a version.
RECURSIVE Annotate(_, _, _, _)
Annotate(pkgs, guiPkgs, installedPkgs, k) ==
    IF k > Len(installedPkgs)
    THEN pkgs
    ELSE LET iPkg == installedPkgs[k]
             pkg == find(guiPkgs, iPkg.full_name)
             next == IF pkg # <<>>
                     THEN updatePackage(pkgs, pkg[1].full_name,
                              [installed_versions |-> iPkg.installed_versions,
                               state |-> AnnotatedState(pkg[1], iPkg)])
                     ELSE pkgs
         IN  Annotate(next, guiPkgs, installedPkgs, k + 1)

\* The values the store takes during that loop, one per updatePackage call.
RECURSIVE AnnotateSteps(_, _, _, _)
AnnotateSteps(pkgs, guiPkgs, installedPkgs, k) ==
    IF k > Len(installedPkgs)
    THEN <<>>
    ELSE LET iPkg == installedPkgs[k]
             pkg == find(guiPkgs, iPkg.full_name)
             next == updatePackage(pkgs, pkg[1].full_name,
                         [installed_versions |-> iPkg.installed_versions,
                          state |-> AnnotatedState(pkg[1], iPkg)])
         IN  IF pkg # <<>>
             THEN <<next>> \o AnnotateSteps(next, guiPkgs, installedPkgs, k + 1)
             ELSE AnnotateSteps(pkgs, guiPkgs, installedPkgs, k + 1)

\* init's array guiPkgs when the loop starts. It is the array init gave the
\* store (line 92), which updatePackage changes in place, for as long as the
\* store holds it; once a caller has replaced the store's array, it is the
\* array as it was then.
GuiPkgsOf(i) ==
    IF inits[i].guiPkgs = <<>> THEN packages ELSE inits[i].guiPkgs[1]

\* A caller replaces the store's array: a call of init that is past
\* packages.set(guiPkgs) and has its loop ahead keeps the array it made.
Detach ==
    [i \in 1..Len(inits) |->
        IF /\ inits[i].pc \in {"getInstalledPackages", "checkTeaCLIPackage"}
           /\ inits[i].guiPkgs = <<>>
        THEN [inits[i] EXCEPT !.guiPkgs = <<packages>>]
        ELSE inits[i]]

\* A mutation of checkTeaCLIPackage: an outdated tea-cli is required anew too.
checkTeaCLIPackageOutdated(teaPkg, installedPkg) ==
    IF installedPkg = <<>> \/ <<teaPkg.version>> # First(installedPkg[1].installed_versions)
    THEN TRUE
    ELSE requireTeaCli

\* checkTeaCLIPackage(teaPkg, installedPkg), as the new value of requireTeaCli.
checkTeaCLIPackage(teaPkg, installedPkg) ==
    IF installedPkg = <<>> THEN TRUE ELSE requireTeaCli

\* A continuation of init is on the microtask queue (await of line 105): the
\* running task has not ended, and until it has no timer callback runs.
MicrotaskPending == \E i \in 1..Len(inits) : inits[i].pc = "checkTeaCLIPackage"

\* init() up to its first await, or to its end when the store is initialized.
InitCall ==
    /\ Len(inits) < MaxInits
    /\ IF InitGuard
       THEN /\ initialized' = TRUE
            /\ native' = [native EXCEPT !.getDistPackages = @ + 1]
            /\ inits' = Append(inits, [pc |-> "getDistPackages", pkgs |-> <<>>,
                                    installedPkgs |-> <<>>, guiPkgs |-> <<>>])
       ELSE /\ inits' = Append(inits, [pc |-> "returned", pkgs |-> <<>>,
                                    installedPkgs |-> <<>>, guiPkgs |-> <<>>])
            /\ UNCHANGED <<initialized, native>>
    /\ UNCHANGED <<packages, packagesIndex, requireTeaCli, syncProgress, calls,
                   timers, analytics, searchOut, upd, subscribers,
                   syncs>>

\* getDistPackages() resolves with pkgs: init runs to await getInstalledPackages().
GetDistResolve(i, pkgs) ==
    /\ inits[i].pc = "getDistPackages"
    /\ packages' = GuiPkgs(pkgs)
    /\ packagesIndex' = <<FuseIndex(GuiPkgs(pkgs))>>
    /\ native' = [native EXCEPT !.getInstalledPackages = @ + 1]
    /\ inits' = [inits EXCEPT ![i].pc = "getInstalledPackages", ![i].pkgs = pkgs]
    /\ Deliver(syncs, <<GuiPkgs(pkgs)>>)
    /\ UNCHANGED <<initialized, requireTeaCli, syncProgress, calls, timers,
                   analytics, searchOut, upd>>

\* getDistPackages() rejects: the await is outside the try, init rejects.
GetDistReject(i) ==
    /\ inits[i].pc = "getDistPackages"
    /\ inits' = [inits EXCEPT ![i].pc = "rejected"]
    /\ UNCHANGED <<initialized, packages, packagesIndex, requireTeaCli, syncProgress,
                   calls, timers, native, analytics, searchOut, upd, subscribers,
                   syncs>>

\* The loop over installedPkgs of init call i and the end of init (lines
\* 108-124).
InitLoop(i, installedPkgs) ==
    /\ packages' = Annotate(packages, GuiPkgsOf(i), installedPkgs, 1)
    /\ syncProgress' \in IF Len(installedPkgs) = 0
                         THEN {syncProgress}
                         ELSE ToFixed2(Rat(Len(installedPkgs), Len(installedPkgs)))
    /\ Deliver(syncs, AnnotateSteps(packages, GuiPkgsOf(i), installedPkgs, 1))

\* getInstalledPackages() resolves. With tea.xyz in the catalog init runs
\* checkTeaCLIPackage and awaits its promise: it goes on in a later microtask.
\* Without, it runs the loop and ends.
GetInstalledResolve(i, installedPkgs) ==
    /\ inits[i].pc = "getInstalledPackages"
    /\ LET distTea == find(inits[i].pkgs, TeaName)
           installedTeaPkg == find(installedPkgs, TeaName)
       IN  IF distTea # <<>>
           THEN /\ requireTeaCli' = checkTeaCLIPackage(distTea[1], installedTeaPkg)
                /\ inits' = [inits EXCEPT ![i].pc = "checkTeaCLIPackage",
                                          ![i].installedPkgs = <<installedPkgs>>]
                /\ UNCHANGED <<packages, syncProgress, subscribers, syncs>>
           ELSE /\ InitLoop(i, installedPkgs)
                /\ inits' = [inits EXCEPT ![i].pc = "returned",
                                          ![i].installedPkgs = <<installedPkgs>>,
                                          ![i].guiPkgs = <<>>]
                /\ UNCHANGED requireTeaCli
    /\ UNCHANGED <<initialized, packagesIndex, calls, timers, native, analytics,
                   searchOut, upd>>

\* init goes on after await checkTeaCLIPackage(..): the loop, the end of init.
CheckTeaCLIPackageResume(i) ==
    /\ inits[i].pc = "checkTeaCLIPackage"
    /\ InitLoop(i, inits[i].installedPkgs[1])
    /\ inits' = [inits EXCEPT ![i].pc = "returned", ![i].guiPkgs = <<>>]
    /\ UNCHANGED <<initialized, packagesIndex, requireTeaCli, calls, timers, native,
                   analytics, searchOut, upd>>

\* getInstalledPackages() rejects: catch (error) { log.error(error) }, init ends.
GetInstalledReject(i) ==
    /\ inits[i].pc = "getInstalledPackages"
    /\ inits' = [inits EXCEPT ![i].pc = "returned", ![i].guiPkgs = <<>>]
    /\ UNCHANGED <<initialized, packages, packagesIndex, requireTeaCli, syncProgress,
                   calls, timers, native, analytics, searchOut, upd, subscribers,
                   syncs>>

----------------------------------------------------------------------------
\* installPkg and withFakeLoader

\* A mutation of the state choice: every install is shown as INSTALLING.
InstallStateAlwaysInstalling(pkg) == INSTALLING

\* pkg.state === NEEDS_UPDATE ? UPDATING : INSTALLING
InstallState(pkg) == IF pkg.state = NEEDS_UPDATE THEN UPDATING ELSE INSTALLING

\* withFakeLoader(pkg, callback) up to setInterval: the closure of the timer.
\* full_name is the pkg.full_name the callback passes to updatePackage.
withFakeLoader(pkg) ==
    [full_name |-> pkg.full_name,
     fakeLoadingProgress |-> Rat(1, 1),
     increment |-> LoaderIncrement(pkg),
     ticks |-> 0]

\* setInterval: the timer table with a new timer under id.
setInterval(table, id, closure) ==
    [t \in (DOMAIN table) \cup {id} |-> IF t = id THEN closure ELSE table[t]]

\* A mutation of the finally block: the timer is left running.
clearTimeoutNever(table, id) == table

\* fakeTimer && clearTimeout(fakeTimer): the timer table without timer id.
clearTimeout(table, id) == [t \in (DOMAIN table) \ {id} |-> table[t]]

\* installPkg(pkg) up to await installPackage(..). pkg is a record of the
\* store; the call keeps what installPkg reads of it later (full_name, state),
\* its local state and the id of its timer.
InstallPkg(pkg) ==
    /\ Len(calls) < MaxInstalls
    /\ \E k \in 1..Len(packages) : packages[k] = pkg
    /\ packages' = updatePackage(packages, pkg.full_name, [state |-> InstallState(pkg)])
    /\ timers' = setInterval(timers, Len(calls) + 1, withFakeLoader(pkg))
    /\ calls' = Append(calls,
                  [pkg |-> [full_name |-> pkg.full_name, state |-> pkg.state],
                   state |-> InstallState(pkg),
                   fakeTimer |-> Len(calls) + 1,
                   pc |-> "installPackage"])
    /\ Deliver(syncs, <<packages'>>)
    /\ UNCHANGED <<initialized, packagesIndex, requireTeaCli, syncProgress, inits,
                   native, analytics, searchOut, upd>>

\* The interval callback of timer t fires.
TimerTick(t) ==
    /\ ~MicrotaskPending
    /\ timers[t].ticks < MaxTicks
    /\ LET p == LoaderStep(timers[t].fakeLoadingProgress, timers[t].increment)
       IN  /\ timers' = [timers EXCEPT ![t].fakeLoadingProgress = p, ![t].ticks = @ + 1]
           /\ \E h \in ToFixed2(p) :
                 packages' = updatePackage(packages, timers[t].full_name,
                                [install_progress_percentage |-> h])
    /\ Deliver(syncs, <<packages'>>)
    /\ UNCHANGED <<initialized, packagesIndex, requireTeaCli, syncProgress, inits,
                   calls, native, analytics, searchOut, upd>>

\* The store after the try block succeeded and the finally block ran.
AfterInstallResolved(pkgs, full_name) ==
    updatePackage(updatePackage(pkgs, full_name, [state |-> INSTALLED]),
                  full_name, [install_progress_percentage |-> 10000])

\* A mutation of the catch block: the state is put back to what the caller passed.
AfterInstallRejectedRevert(pkgs, call) ==
    updatePackage(updatePackage(pkgs, call.pkg.full_name, [state |-> call.pkg.state]),
                  call.pkg.full_name, [install_progress_percentage |-> 10000])

\* The store after the catch block and the finally block ran.
AfterInstallRejected(pkgs, call) ==
    updatePackage(pkgs, call.pkg.full_name, [install_progress_percentage |-> 10000])

\* installPackage() resolves: trackInstall, state INSTALLED, finally.
InstallResolve(c) ==
    /\ calls[c].pc = "installPackage"
    /\ analytics' = [analytics EXCEPT !.trackInstall[calls[c].pkg.full_name] = @ + 1]
    /\ packages' = AfterInstallResolved(packages, calls[c].pkg.full_name)
    /\ timers' = clearTimeout(timers, calls[c].fakeTimer)
    /\ calls' = [calls EXCEPT ![c].pc = "returned"]
    /\ Deliver(syncs, <<updatePackage(packages, calls[c].pkg.full_name,
                                      [state |-> INSTALLED]),
                        packages'>>)
    /\ UNCHANGED <<initialized, packagesIndex, requireTeaCli, syncProgress, inits,
                   native, searchOut, upd>>

\* installPackage() rejects: catch tracks the failure, finally.
InstallReject(c) ==
    /\ calls[c].pc = "installPackage"
    /\ analytics' = [analytics EXCEPT !.trackInstallFailed[calls[c].pkg.full_name] = @ + 1]
    /\ packages' = AfterInstallRejected(packages, calls[c])
    /\ timers' = clearTimeout(timers, calls[c].fakeTimer)
    /\ calls' = [calls EXCEPT ![c].pc = "returned"]
    /\ Deliver(syncs, <<packages'>>)
    /\ UNCHANGED <<initialized, packagesIndex, requireTeaCli, syncProgress, inits,
                   native, searchOut, upd>>

----------------------------------------------------------------------------
\* fetchPackageBottles

\* getPackageBottles(pkgName) resolves with bottles. The pending call holds only
\* pkgName and writes nothing before, so call and resolution are one step; a
\* rejection writes nothing at all.
FetchPackageBottles(pkgName, bottles) ==
    /\ packages' = updatePackage(packages, pkgName, [bottles |-> bottles])
    /\ Deliver(syncs, <<packages'>>)
    /\ UNCHANGED <<initialized, packagesIndex, requireTeaCli, syncProgress, inits,
                   calls, timers, native, analytics, searchOut, upd>>

----------------------------------------------------------------------------
\* subscribeToPackage and syncPackageData

Slugs == { Slug(n) : n \in PkgNames }

\* getPackage(full_name): the package's remote data, with or without a github
\* repository.
GetPackageResults(full_name) ==
    { [full_name |-> full_name],
      [full_name |-> full_name, github |-> "owner/repo"] }

\* getReadme: "" when the repository has none. getContributors, getRepoAsPackage.
Readmes == {"", "readme"}
Contributors == <<[login |-> "dev"]>>
RepoData == [license |-> "MIT"]

\* The template literal of readmeMd, in its pieces (it ends with the line break
\* and the two tabs before the closing backquote); an undefined homepage is
\* interpolated as "undefined".
readmeMd(full_name, homepage) ==
    LET h == IF homepage = <<>> THEN "undefined" ELSE homepage[1]
    IN  <<"# ", full_name, " #\nTo read more about this package go to [", h, "](", h, ").\n\t\t">>

\* updatedPackage = { ...pkg, readme_md: readmeMd, synced: true }
updatedPackage(call, pkg) ==
    Spread(pkg, [readme_md |-> readmeMd(call.full_name, call.homepage), synced |-> TRUE])

\* updatedPackage after the if (pkg.github) block.
updatedPackageGithub(call, readme, contributors, repoData) ==
    Spread(Spread(updatedPackage(call, call.pkg[1]),
                  IF readme # "" THEN [readme_md |-> <<readme>>] ELSE <<>>),
           [contributors |-> contributors, license |-> repoData.license])

\* subscribeToPackage(slug, cb): packages.subscribe runs the subscriber at once
\* on the current value and keeps it for every later one.
SubscribeToPackage(slug) ==
    /\ Len(subscribers) < MaxSubs
    /\ subscribers' = Append(subscribers, slug)
    /\ Len(Subscriber(syncs, packages, slug)) <= MaxSyncs
    /\ syncs' = Subscriber(syncs, packages, slug)
    /\ UNCHANGED <<initialized, packages, packagesIndex, requireTeaCli, syncProgress,
                   inits, calls, timers, native, analytics, searchOut, upd>>

\* What a caller may pass to syncPackageData: undefined, a record of the
\* store, or a record of its own.
SyncArgs ==
    { <<>>, <<[full_name |-> TeaName]>> } \cup { <<packages[k]>> : k \in 1..Len(packages) }

\* syncPackageData(guiPkg) called directly (it is part of the store's
\* interface), up to await getPackage(..).
SyncPackageData(guiPkg) ==
    /\ Len(syncPackageData(syncs, guiPkg)) <= MaxSyncs
    /\ syncs' = syncPackageData(syncs, guiPkg)
    /\ UNCHANGED <<initialized, packages, packagesIndex, requireTeaCli, syncProgress,
                   inits, calls, timers, native, analytics, searchOut, upd,
                   subscribers>>

\* getPackage() resolves with pkg: without a github repository
\* syncPackageData runs to its end, with one to the await of Promise.all.
SyncGetPackageResolve(s, pkg) ==
    /\ syncs[s].pc = "getPackage"
    /\ IF "github" \in DOMAIN pkg
       THEN /\ syncs' = [syncs EXCEPT ![s].pc = "github", ![s].pkg = <<pkg>>]
            /\ UNCHANGED <<packages, subscribers>>
       ELSE /\ packages' = updatePackage(packages, syncs[s].full_name,
                                         updatedPackage(syncs[s], pkg))
            /\ Deliver([syncs EXCEPT ![s].pc = "returned", ![s].pkg = <<pkg>>],
                       <<packages'>>)
    /\ UNCHANGED <<initialized, packagesIndex, requireTeaCli, syncProgress, inits,
                   calls, timers, native, analytics, searchOut, upd>>

\* getPackage() rejects: syncPackageData rejects, nothing is written.
SyncGetPackageReject(s) ==
    /\ syncs[s].pc = "getPackage"
    /\ syncs' = [syncs EXCEPT ![s].pc = "rejected"]
    /\ UNCHANGED <<initialized, packages, packagesIndex, requireTeaCli, syncProgress,
                   inits, calls, timers, native, analytics, searchOut, upd,
                   subscribers>>

\* getReadme, getContributors and getRepoAsPackage have all resolved.
SyncGithubResolve(s, readme) ==
    /\ syncs[s].pc = "github"
    /\ packages' = updatePackage(packages, syncs[s].full_name,
                       updatedPackageGithub(syncs[s], readme, Contributors, RepoData))
    /\ Deliver([syncs EXCEPT ![s].pc = "returned"], <<packages'>>)
    /\ UNCHANGED <<initialized, packagesIndex, requireTeaCli, syncProgress, inits,
                   calls, timers, native, analytics, searchOut, upd>>

\* One of the three rejects: syncPackageData rejects, nothing is written.
SyncGithubReject(s) ==
    /\ syncs[s].pc = "github"
    /\ syncs' = [syncs EXCEPT ![s].pc = "rejected"]
    /\ UNCHANGED <<initialized, packages, packagesIndex, requireTeaCli, syncProgress,
                   inits, calls, timers, native, analytics, searchOut, upd,
                   subscribers>>

----------------------------------------------------------------------------
\* search

DefaultLimit == 5
SearchTerms == {"", "tea"}
\* The limit argument: <<>> when omitted, else <<limit>>.
SearchLimits == { <<>>, <<0>>, <<1>> }

\* What packagesIndex.search(term) may match, best first: any documents of the
\* index, each once, in any order (positions in the indexed array).
FuseMatches(index) ==
    { s \in UNION { [1..k -> 1..Len(index)] : k \in 0..Len(index) } :
        \A i, j \in DOMAIN s : i # j => s[i] # s[j] }

\* A mutation of search: the limit is not passed on to the index.
FuseLimitIgnored(matches, limit) == matches

\* Fuse's { limit }: results.slice(0, limit)
FuseLimit(matches, limit) ==
    SubSeq(matches, 1, IF limit < Len(matches) THEN limit ELSE Len(matches))

\* search(term, limit = 5), given what the index matches. res.map((v) => v.item):
\* the items are the elements of the indexed array, which is the store's.
search(term, limitArg, matches) ==
    LET limit == IF limitArg = <<>> THEN DefaultLimit ELSE limitArg[1]
        res == FuseLimit(matches, limit)
    IN  IF term = "" \/ packagesIndex = <<>>
        THEN <<>>
        ELSE [k \in 1..Len(res) |-> packages[res[k]]]

Search(term, limitArg) ==
    /\ \E matches \in (IF packagesIndex = <<>> THEN {<<>>} ELSE FuseMatches(packagesIndex[1])) :
          searchOut' = [term |-> term, limit |-> limitArg,
                        res |-> search(term, limitArg, matches)]
    /\ UNCHANGED <<initialized, packages, packagesIndex, requireTeaCli, syncProgress,
                   inits, calls, timers, native, analytics, upd, subscribers,
                   syncs>>

----------------------------------------------------------------------------
Next ==
    \/ InitCall
    \/ \E i \in 1..Len(inits) : \E pkgs \in DistCatalogs : GetDistResolve(i, pkgs)
    \/ \E i \in 1..Len(inits) : GetDistReject(i)
    \/ \E i \in 1..Len(inits) : \E l \in InstalledLists : GetInstalledResolve(i, l)
    \/ \E i \in 1..Len(inits) : GetInstalledReject(i)
    \/ \E i \in 1..Len(inits) : CheckTeaCLIPackageResume(i)
    \/ \E k \in 1..Len(packages) : InstallPkg(packages[k])
    \/ \E t \in DOMAIN timers : TimerTick(t)
    \/ \E c \in 1..Len(calls) : InstallResolve(c)
    \/ \E c \in 1..Len(calls) : InstallReject(c)
    \/ \E n \in BottleNames : \E b \in BottleLists : FetchPackageBottles(n, b)

Spec == Init /\ [][Next]_vars

\* The store with search calls; at most one installPkg call, to keep the
\* results that are held in the state few.
NextSearch ==
    \/ InitCall
    \/ \E i \in 1..Len(inits) : \E pkgs \in DistCatalogs : GetDistResolve(i, pkgs)
    \/ \E i \in 1..Len(inits) : GetDistReject(i)
    \/ \E i \in 1..Len(inits) : \E l \in InstalledLists : GetInstalledResolve(i, l)
    \/ \E i \in 1..Len(inits) : GetInstalledReject(i)
    \/ \E i \in 1..Len(inits) : CheckTeaCLIPackageResume(i)
    \/ \E k \in 1..Len(packages) : calls = <<>> /\ InstallPkg(packages[k])
    \/ \E t \in DOMAIN timers : TimerTick(t)
    \/ \E c \in 1..Len(calls) : InstallResolve(c)
    \/ \E c \in 1..Len(calls) : InstallReject(c)
    \/ \E n \in BottleNames : \E b \in BottleLists : FetchPackageBottles(n, b)
    \/ \E t \in SearchTerms : \E l \in SearchLimits : Search(t, l)

SpecSearch == Init /\ [][NextSearch]_vars

\* The store with package pages open: subscribeToPackage and the
\* syncPackageData calls it starts, next to init, one installPkg call, its
\* timer and fetchPackageBottles.
NextSync ==
    \/ InitCall
    \/ \E i \in 1..Len(inits) : \E pkgs \in DistCatalogs : GetDistResolve(i, pkgs)
    \/ \E i \in 1..Len(inits) : GetDistReject(i)
    \/ \E i \in 1..Len(inits) : \E l \in InstalledLists : GetInstalledResolve(i, l)
    \/ \E i \in 1..Len(inits) : GetInstalledReject(i)
    \/ \E i \in 1..Len(inits) : CheckTeaCLIPackageResume(i)
    \/ \E k \in 1..Len(packages) : calls = <<>> /\ InstallPkg(packages[k])
    \/ \E t \in DOMAIN timers : TimerTick(t)
    \/ \E c \in 1..Len(calls) : InstallResolve(c)
    \/ \E c \in 1..Len(calls) : InstallReject(c)
    \/ \E n \in BottleNames : \E b \in BottleLists : FetchPackageBottles(n, b)
    \/ \E slug \in Slugs : SubscribeToPackage(slug)
    \/ \E guiPkg \in SyncArgs : SyncPackageData(guiPkg)
    \/ \E s \in 1..Len(syncs) : \E pkg \in GetPackageResults(syncs[s].full_name) :
          SyncGetPackageResolve(s, pkg)
    \/ \E s \in 1..Len(syncs) : SyncGetPackageReject(s)
    \/ \E s \in 1..Len(syncs) : \E readme \in Readmes : SyncGithubResolve(s, readme)
    \/ \E s \in 1..Len(syncs) : SyncGithubReject(s)

SpecSync == Init /\ [][NextSync]_vars

----------------------------------------------------------------------------
\* updatePackage called directly (it is part of the store's interface), on
\* lists that may hold two records of one full_name.

UpdateRecords ==
    { [full_name |-> n, version |-> "2", state |-> st] :
        n \in PkgNames, st \in {AVAILABLE, INSTALLING} }

UpdateLists ==
    { <<>> } \cup { <<p>> : p \in UpdateRecords }
    \cup { <<p, q>> : p \in UpdateRecords, q \in UpdateRecords }

UpdateNames == PkgNames \cup {"c"}

\* Partial<GUIPackage>: any subset of the fields, the key included.
UpdateProps ==
    { <<>>,
      [state |-> INSTALLED],
      [install_progress_percentage |-> 199],
      [state |-> NEEDS_UPDATE, installed_versions |-> <<"1">>],
      [full_name |-> "c"] }

InitUpdate ==
    /\ initialized = FALSE
    /\ packages \in UpdateLists
    /\ packagesIndex = <<>>
    /\ requireTeaCli = FALSE
    /\ syncProgress = 0
    /\ inits = <<>>
    /\ calls = <<>>
    /\ timers = <<>>
    /\ native = [getDistPackages |-> 0, getInstalledPackages |-> 0]
    /\ analytics = [trackInstall |-> [n \in PkgNames |-> 0],
                    trackInstallFailed |-> [n \in PkgNames |-> 0]]
    /\ searchOut = NoSearch
    /\ upd = NoUpdate
    /\ subscribers = <<>>
    /\ syncs = <<>>

\* updatePackage(full_name, props); upd keeps the arguments and the list before.
UpdatePackage(full_name, props) ==
    /\ packages' = updatePackage(packages, full_name, props)
    /\ upd' = [pkgs |-> packages, full_name |-> full_name, props |-> props, done |-> TRUE]
    /\ Deliver(syncs, <<packages'>>)
    /\ UNCHANGED <<initialized, packagesIndex, requireTeaCli, syncProgress, inits,
                   calls, timers, native, analytics, searchOut>>

NextUpdate == \E n \in UpdateNames : \E props \in UpdateProps : UpdatePackage(n, props)

SpecUpdate == InitUpdate /\ [][NextUpdate]_vars

----------------------------------------------------------------------------
\* The writable stores the interface hands out (packages, syncProgress,
\* requireTeaCli): a caller may write them. update(fn) is set(fn(value)).

\* Lists a caller may set.
WritableLists ==
    { <<>>,
      <<Spread(DistPkg(OtherName), [state |-> INSTALLING])>> }

\* Values a caller may set syncProgress to, in hundredths.
WritableProgress == {50}

\* pkgs.filter((p) => p.full_name !== full_name)
RECURSIVE filter(_, _)
filter(pkgs, full_name) ==
    IF pkgs = <<>>
    THEN <<>>
    ELSE IF Head(pkgs).full_name # full_name
         THEN <<Head(pkgs)>> \o filter(Tail(pkgs), full_name)
         ELSE filter(Tail(pkgs), full_name)

\* packages.set(pkgs): the store holds another array; the index and a running
\* init keep the array init made.
PackagesSet(pkgs) ==
    /\ packages' = pkgs
    /\ inits' = Detach
    /\ Deliver(syncs, <<packages'>>)
    /\ UNCHANGED <<initialized, packagesIndex, requireTeaCli, syncProgress, calls,
                   timers, native, analytics, searchOut, upd>>

\* packages.update((pkgs) => pkgs.filter((p) => p.full_name !== full_name)):
\* filter gives a new array.
PackagesUpdate(full_name) ==
    /\ packages' = filter(packages, full_name)
    /\ inits' = Detach
    /\ Deliver(syncs, <<packages'>>)
    /\ UNCHANGED <<initialized, packagesIndex, requireTeaCli, syncProgress, calls,
                   timers, native, analytics, searchOut, upd>>

\* syncProgress.set(value)
SyncProgressSet(value) ==
    /\ syncProgress' = value
    /\ UNCHANGED <<initialized, packages, packagesIndex, requireTeaCli, inits, calls,
                   timers, native, analytics, searchOut, upd, subscribers, syncs>>

\* requireTeaCli.set(value)
RequireTeaCliSet(value) ==
    /\ requireTeaCli' = value
    /\ UNCHANGED <<initialized, packages, packagesIndex, syncProgress, inits, calls,
                   timers, native, analytics, searchOut, upd, subscribers, syncs>>

\* What a caller passes to updatePackage here: a state, a rename.
OpenProps == { [state |-> INSTALLED], [full_name |-> OtherName] }

\* The store with every writer of its three stores: init, one installPkg
\* call, its timer, fetchPackageBottles, one direct updatePackage call and the
\* writes through the writables.
NextOpen ==
    \/ InitCall
    \/ \E i \in 1..Len(inits) : \E pkgs \in DistCatalogs : GetDistResolve(i, pkgs)
    \/ \E i \in 1..Len(inits) : GetDistReject(i)
    \/ \E i \in 1..Len(inits) : \E l \in InstalledLists : GetInstalledResolve(i, l)
    \/ \E i \in 1..Len(inits) : GetInstalledReject(i)
    \/ \E i \in 1..Len(inits) : CheckTeaCLIPackageResume(i)
    \/ \E k \in 1..Len(packages) : calls = <<>> /\ InstallPkg(packages[k])
    \/ \E t \in DOMAIN timers : TimerTick(t)
    \/ \E c \in 1..Len(calls) : InstallResolve(c)
    \/ \E c \in 1..Len(calls) : InstallReject(c)
    \/ \E n \in BottleNames : \E b \in BottleLists : FetchPackageBottles(n, b)
    \/ \E n \in PkgNames : \E props \in OpenProps : ~upd.done /\ UpdatePackage(n, props)
    \/ \E pkgs \in WritableLists : PackagesSet(pkgs)
    \/ \E n \in PkgNames : PackagesUpdate(n)
    \/ \E v \in WritableProgress : SyncProgressSet(v)
    \/ \E v \in BOOLEAN : RequireTeaCliSet(v)

SpecOpen == Init /\ [][NextOpen]_vars

----------------------------------------------------------------------------
\* Properties.

\* The record the store holds for full_name (the first one of that name).
Stored(full_name) == packages[findIndex(packages, full_name)]
StoredNext(full_name) == packages'[findIndex(packages', full_name)]

InFlightStates == {INSTALLING, UPDATING}

\* C1: when init has returned after both fetches succeeded and installPkg was
\* never called, the store holds the catalog in order, every package named in
\* the installed list has the installed record's installed_versions and is
\* INSTALLED if its version is the first of them and NEEDS_UPDATE otherwise,
\* and every other package is AVAILABLE.
InitAnnotatesCatalog ==
    \A i \in 1..Len(inits) :
        (inits[i].pc = "returned" /\ inits[i].installedPkgs # <<>> /\ calls = <<>>) =>
            LET pkgs == inits[i].pkgs
                installed == inits[i].installedPkgs[1]
            IN  /\ Len(packages) = Len(pkgs)
                /\ \A k \in 1..Len(pkgs) :
                    /\ packages[k].full_name = pkgs[k].full_name
                    /\ packages[k].version = pkgs[k].version
                    /\ \A j \in 1..Len(installed) :
                          installed[j].full_name = pkgs[k].full_name =>
                            /\ packages[k].installed_versions = installed[j].installed_versions
                            /\ packages[k].state =
                                 IF installed[j].installed_versions # <<>>
                                    /\ installed[j].installed_versions[1] = pkgs[k].version
                                 THEN INSTALLED
                                 ELSE NEEDS_UPDATE
                    /\ (\A j \in 1..Len(installed) :
                          installed[j].full_name # pkgs[k].full_name) =>
                            packages[k].state = AVAILABLE

\* C1 witness: init has returned with one package INSTALLED and one NEEDS_UPDATE
\* although the catalog's version is among its installed versions.
InitAnnotatesCatalogWitness ==
    /\ calls = <<>>
    /\ \E i \in 1..Len(inits) : inits[i].pc = "returned" /\ inits[i].installedPkgs # <<>>
    /\ \E k \in 1..Len(packages) : packages[k].state = INSTALLED
    /\ \E k \in 1..Len(packages) :
          /\ packages[k].state = NEEDS_UPDATE
          /\ \E v \in 1..Len(packages[k].installed_versions) :
                packages[k].installed_versions[v] = packages[k].version

\* C2: after updatePackage(full_name, props) the list has the same length, the
\* first record of that full_name has exactly the fields of props set to the
\* values of props and its other fields as before, and every other record is
\* as before (so nothing changes when no record matches).
UpdatePackageFrame ==
    upd.done =>
        LET before == upd.pkgs
            hit == { k \in 1..Len(before) : before[k].full_name = upd.full_name }
        IN  /\ Len(packages) = Len(before)
            /\ \A k \in 1..Len(before) :
                  IF k \in hit /\ \A j \in hit : k <= j
                  THEN /\ DOMAIN packages[k] = (DOMAIN before[k]) \cup (DOMAIN upd.props)
                       /\ \A f \in DOMAIN packages[k] :
                             packages[k][f] = IF f \in DOMAIN upd.props
                                              THEN upd.props[f]
                                              ELSE before[k][f]
                  ELSE packages[k] = before[k]

\* C2 witness: a call on a list of two records of the called name changed the
\* first and left the second.
UpdatePackageFrameWitness ==
    /\ upd.done
    /\ Len(upd.pkgs) = 2
    /\ upd.pkgs[1].full_name = upd.full_name
    /\ upd.pkgs[2].full_name = upd.full_name
    /\ packages[1] # upd.pkgs[1]
    /\ packages[2] = upd.pkgs[2]

\* C3: on every timer tick the value reported is at most 100 and, from the
\* second tick on, not less than the one reported before.
FakeLoaderIncreasesTo100 ==
    [][\A t \in (DOMAIN timers) \cap (DOMAIN timers') :
          timers'[t].ticks = timers[t].ticks + 1 =>
            \A h \in ToFixed2(timers'[t].fakeLoadingProgress) :
               /\ h <= 10000
               /\ timers[t].ticks >= 1 =>
                    \A g \in ToFixed2(timers[t].fakeLoadingProgress) : h >= g]_vars

\* C4: no call of init and no call of installPkg ends by rejecting.
NoCallRejects ==
    /\ \A i \in 1..Len(inits) : inits[i].pc # "rejected"
    /\ \A c \in 1..Len(calls) : calls[c].pc # "rejected"

\* C5: the step that starts installPkg(pkg) leaves the stored state UPDATING if
\* pkg.state is NEEDS_UPDATE and INSTALLING otherwise, with the backend install
\* pending; the step in which the backend install succeeds (trackInstall runs)
\* leaves the stored state INSTALLED.
InstallPkgStates ==
    [][/\ Len(calls') = Len(calls) + 1 =>
            LET call == calls'[Len(calls')]
            IN  /\ call.pc = "installPackage"
                /\ StoredNext(call.pkg.full_name).state =
                      IF call.pkg.state = NEEDS_UPDATE THEN UPDATING ELSE INSTALLING
       /\ \A c \in 1..Len(calls) :
            (/\ calls[c].pc = "installPackage"
             /\ calls'[c].pc = "returned"
             /\ analytics'.trackInstall # analytics.trackInstall) =>
                StoredNext(calls[c].pkg.full_name).state = INSTALLED]_vars

\* C5 witness: an install of a NEEDS_UPDATE record is pending with the stored
\* state UPDATING, after an earlier install succeeded.
InstallPkgStatesWitness ==
    \E c \in 1..Len(calls) :
        /\ calls[c].pkg.state = NEEDS_UPDATE
        /\ calls[c].pc = "installPackage"
        /\ Stored(calls[c].pkg.full_name).state = UPDATING
        /\ \E n \in PkgNames : analytics.trackInstall[n] > 0

\* C6: a search call returns the empty list when the term is empty or the
\* index is not built; otherwise it returns at most limit records (5 when the
\* limit is omitted), each of them a record of the store at a position the
\* index was built over.
SearchResult ==
    [][searchOut' # searchOut =>
          LET out == searchOut'
              limit == IF out.limit = <<>> THEN 5 ELSE out.limit[1]
          IN  /\ (out.term = "" \/ packagesIndex = <<>>) => out.res = <<>>
              /\ Len(out.res) <= limit
              /\ \A k \in 1..Len(out.res) :
                    \E j \in 1..Len(packagesIndex[1]) :
                       /\ out.res[k] = packages[j]
                       /\ out.res[k].full_name = packagesIndex[1][j]]_vars

\* C6 witness: a search with limit 1 over a catalog of two returned one record.
SearchResultWitness ==
    /\ searchOut.term # ""
    /\ searchOut.limit = <<1>>
    /\ Len(searchOut.res) = 1
    /\ packagesIndex # <<>>
    /\ Len(packagesIndex[1]) = 2

\* C7 as stated: the step in which the backend install fails (installPkg
\* returns without trackInstall) leaves the stored state at the INSTALLING or
\* UPDATING value the call set, and trackInstallFailed has run once more for
\* that package and for no other.
InstallFailureKeepsState ==
    [][\A c \in 1..Len(calls) :
          (/\ calls[c].pc = "installPackage"
           /\ calls'[c].pc = "returned"
           /\ analytics'.trackInstall = analytics.trackInstall) =>
              LET n == calls[c].pkg.full_name
              IN  /\ calls[c].state \in InFlightStates
                  /\ StoredNext(n).state = calls[c].state
                  /\ analytics'.trackInstallFailed =
                        [analytics.trackInstallFailed EXCEPT ![n] = @ + 1]]_vars

\* C7 amended: the step in which the backend install fails writes no state:
\* the stored state stays what it was before the step. That is the INSTALLING
\* or UPDATING value the call set, unless init's annotation has run on an
\* installed list that names the package, or another installPkg call for the
\* package was made, since this call started; then it is what that writer
\* set, never AVAILABLE. trackInstallFailed has run once more for that
\* package and for no other.
InstallFailureWritesNoState ==
    [][\A c \in 1..Len(calls) :
          (/\ calls[c].pc = "installPackage"
           /\ calls'[c].pc = "returned"
           /\ analytics'.trackInstall = analytics.trackInstall) =>
              LET n == calls[c].pkg.full_name
              IN  /\ calls[c].state \in InFlightStates
                  /\ StoredNext(n).state = Stored(n).state
                  /\ StoredNext(n).state # AVAILABLE
                  /\ StoredNext(n).state # calls[c].state =>
                        \/ \E d \in 1..Len(calls) :
                              d # c /\ calls[d].pkg.full_name = n
                        \/ /\ StoredNext(n).state \in {INSTALLED, NEEDS_UPDATE}
                           /\ \E i \in 1..Len(inits) :
                                 /\ inits[i].pc = "returned"
                                 /\ inits[i].installedPkgs # <<>>
                                 /\ \E k \in 1..Len(inits[i].installedPkgs[1]) :
                                       inits[i].installedPkgs[1][k].full_name = n
                  /\ analytics'.trackInstallFailed =
                        [analytics.trackInstallFailed EXCEPT ![n] = @ + 1]]_vars

\* C7 witness: the only installPkg call has failed and returned, the failure
\* is tracked once, and the stored state is the INSTALLED that init's
\* annotation wrote while the install was pending.
InstallFailureWritesNoStateWitness ==
    /\ Len(calls) = 1
    /\ calls[1].pc = "returned"
    /\ calls[1].state = INSTALLING
    /\ analytics.trackInstallFailed[calls[1].pkg.full_name] = 1
    /\ analytics.trackInstall[calls[1].pkg.full_name] = 0
    /\ Stored(calls[1].pkg.full_name).state = INSTALLED

\* C8 as stated: while an installPkg call is pending, the stored state of its
\* package is INSTALLING or UPDATING.
InFlightStateKept ==
    \A c \in 1..Len(calls) :
        calls[c].pc = "installPackage" =>
            Stored(calls[c].pkg.full_name).state \in InFlightStates

\* C8 amended: while an installPkg call is pending, the stored state of its
\* package is never AVAILABLE, and the only steps that change it are init's
\* annotation (to INSTALLED or NEEDS_UPDATE), the success of another call for
\* the same package (to INSTALLED) and the start of another call for it (to
\* INSTALLING or UPDATING); timer ticks, fetchPackageBottles and a failed
\* install leave it alone.
InFlightStateWriters ==
    [][\A c \in 1..Len(calls) :
          (calls[c].pc = "installPackage" /\ calls'[c].pc = "installPackage") =>
              LET n == calls[c].pkg.full_name
              IN  /\ StoredNext(n).state # AVAILABLE
                  /\ StoredNext(n).state # Stored(n).state =>
                      \/ /\ \E i \in 1..Len(inits) :
                               /\ inits[i].pc \in {"getInstalledPackages",
                                                   "checkTeaCLIPackage"}
                               /\ inits'[i].pc = "returned"
                         /\ StoredNext(n).state \in {INSTALLED, NEEDS_UPDATE}
                      \/ /\ \E d \in 1..Len(calls) :
                               /\ d # c
                               /\ calls[d].pkg.full_name = n
                               /\ calls[d].pc = "installPackage"
                               /\ calls'[d].pc = "returned"
                         /\ StoredNext(n).state = INSTALLED
                      \/ /\ Len(calls') = Len(calls) + 1
                         /\ calls'[Len(calls')].pkg.full_name = n
                         /\ StoredNext(n).state \in InFlightStates]_vars

\* C8 witness: an installPkg call is pending and init's annotation has set the
\* stored state of its package to NEEDS_UPDATE.
InFlightStateWritersWitness ==
    \E c \in 1..Len(calls) :
        /\ calls[c].pc = "installPackage"
        /\ calls[c].state = INSTALLING
        /\ Stored(calls[c].pkg.full_name).state = NEEDS_UPDATE
        /\ \A d \in 1..Len(calls) : d = c

\* C9: a call that has returned has stopped its timer, and a package all of
\* whose installPkg calls have returned has install_progress_percentage 100.
ProgressEndsAt100 ==
    /\ \A c \in 1..Len(calls) :
          calls[c].pc = "returned" => calls[c].fakeTimer \notin DOMAIN timers
    /\ \A n \in PkgNames :
          (/\ \E c \in 1..Len(calls) : calls[c].pkg.full_name = n
           /\ \A c \in 1..Len(calls) :
                 calls[c].pkg.full_name = n => calls[c].pc = "returned") =>
              Stored(n).install_progress_percentage = 10000

\* C9 witness: two calls for one package overlapped (the second was passed a
\* record in state INSTALLING or UPDATING) and both have returned.
ProgressEndsAt100Witness ==
    /\ Len(calls) = 2
    /\ calls[1].pkg.full_name = calls[2].pkg.full_name
    /\ calls[2].pkg.state \in InFlightStates
    /\ calls[1].pc = "returned" /\ calls[2].pc = "returned"
    /\ timers = <<>>
    /\ Stored(calls[1].pkg.full_name).install_progress_percentage = 10000

\* C10: getDistPackages and getInstalledPackages are each invoked at most once,
\* and once the index is built no step rebuilds it or replaces the list (the
\* list keeps its packages in their order).
InitFetchesOnce ==
    [][/\ native'.getDistPackages <= 1
       /\ native'.getInstalledPackages <= 1
       /\ packagesIndex # <<>> =>
            /\ packagesIndex' = packagesIndex
            /\ Len(packages') = Len(packages)
            /\ \A k \in 1..Len(packages) :
                  packages'[k].full_name = packages[k].full_name]_vars

\* C10 witness: the first call's catalog fetch failed and a second call has
\* returned without fetching again.
InitFetchesOnceWitness ==
    /\ Len(inits) = 2
    /\ inits[1].pc = "rejected"
    /\ inits[2].pc = "returned"
    /\ native.getDistPackages = 1
    /\ native.getInstalledPackages = 0

\* C11: whenever a call of init has returned normally, the index is built and
\* the list holds the catalog one of the calls fetched.
InitReturnedMeansInitialized ==
    \A i \in 1..Len(inits) :
        inits[i].pc = "returned" =>
            /\ packagesIndex # <<>>
            /\ \E j \in 1..Len(inits) :
                  /\ inits[j].pc \in {"getInstalledPackages", "checkTeaCLIPackage",
                                      "returned"}
                  /\ Len(packages) = Len(inits[j].pkgs)
                  /\ \A k \in 1..Len(packages) :
                        packages[k].full_name = inits[j].pkgs[k].full_name

\* C12: with one subscribeToPackage subscription, a store update made by a
\* step of init or installPkg or by a timer tick starts no getPackage fetch
\* for a package whose syncPackageData call is still under way.
FetchStartedAtMostOnce ==
    [][(Len(subscribers) <= 1 /\ <<inits, calls, timers>>' # <<inits, calls, timers>>) =>
          \A t \in (Len(syncs) + 1)..Len(syncs') :
              \A s \in 1..Len(syncs) :
                  syncs[s].pc \in {"getPackage", "github"} =>
                      syncs[s].full_name # syncs'[t].full_name]_vars

\* C13: requireTeaCli is true after a step only if a call of init fetched a
\* catalog with tea.xyz in it and an installed list with no tea.xyz record, and
\* no step takes it from true to false.
RequireTeaCliOnlyWhenMissing ==
    [][/\ requireTeaCli' =>
            \E i \in 1..Len(inits') :
               /\ inits'[i].installedPkgs # <<>>
               /\ \E k \in 1..Len(inits'[i].pkgs) :
                     inits'[i].pkgs[k].full_name = "tea.xyz"
               /\ \A k \in 1..Len(inits'[i].installedPkgs[1]) :
                     inits'[i].installedPkgs[1][k].full_name # "tea.xyz"
       /\ requireTeaCli => requireTeaCli']_vars

\* C13 witness: requireTeaCli is true and has stayed so through an installPkg
\* call that has returned.
RequireTeaCliOnlyWhenMissingWitness ==
    /\ requireTeaCli
    /\ \E c \in 1..Len(calls) : calls[c].pc = "returned"

====
